---- MODULE Spec2Model ----
(***************************************************************************)
(* su-exec (scripts/agent/su-exec.c): resolve a user-spec, set the         *)
(* supplementary groups, the gid and the uid, then exec the command.       *)
(*                                                                         *)
(* A C string is a sequence of one-character strings.  A pointer is <<>>   *)
(* (NULL) or <<x>> (a pointer to x).  A uid_t/gid_t is a 32-bit unsigned   *)
(* integer, kept as two 16-bit limbs <<lo, hi>>; a long is 64 bits, kept   *)
(* as a sign and four limbs, least significant first.                      *)
(*                                                                         *)
(* Every system call (setgroups, setgid, setuid, execvp) may succeed or    *)
(* be rejected.  Allocation fails only where main tests the result         *)
(* (realloc, line 148): setenv (line 92) and malloc (line 113), whose      *)
(* results main does not test, are taken to succeed.  Memory that was      *)
(* allocated and never written holds any of GarbageIds when it is read.    *)
(***************************************************************************)
EXTENDS Integers, Sequences, FiniteSets, TLC

NULL == <<>>
Ptr(x) == <<x>>

LimbBase == 65536
LimbMax == LimbBase - 1

\* a small number as a uid_t/gid_t
U32(n) == <<n % LimbBase, n \div LimbBase>>

Digits == {"0", "1", "2", "3", "4", "5", "6", "7", "8", "9"}
Spaces == {" ", "\t", "\n"}

DigitVal(c) ==
    CASE c = "0" -> 0 [] c = "1" -> 1 [] c = "2" -> 2 [] c = "3" -> 3
      [] c = "4" -> 4 [] c = "5" -> 5 [] c = "6" -> 6 [] c = "7" -> 7
      [] c = "8" -> 8 [] c = "9" -> 9

\* limbs * k + c over Len(limbs) limbs: <<the limbs, the carry out>>
RECURSIVE MulAddLimbs(_, _, _)
MulAddLimbs(limbs, k, c) ==
    IF limbs = <<>> THEN <<<<>>, c>>
    ELSE LET t == Head(limbs) * k + c
             r == MulAddLimbs(Tail(limbs), k, t \div LimbBase)
         IN  <<<<t % LimbBase>> \o r[1], r[2]>>

\* the first index j >= i of s with s[j] \notin S, or Len(s) + 1
RECURSIVE SkipWhile(_, _, _)
SkipWhile(s, i, S) ==
    IF i <= Len(s) /\ s[i] \in S THEN SkipWhile(s, i + 1, S) ELSE i

\* the digits s[i..j-1] accumulated into a 64-bit magnitude, with overflow
RECURSIVE Accumulate(_, _, _, _)
Accumulate(s, i, j, acc) ==
    IF i >= j THEN acc
    ELSE LET r == MulAddLimbs(acc.mag, 10, DigitVal(s[i]))
         IN  Accumulate(s, i + 1, j,
                        [mag |-> r[1], ovf |-> acc.ovf \/ r[2] > 0])

LongZero == <<0, 0, 0, 0>>
LongMaxMag == <<LimbMax, LimbMax, LimbMax, 32767>>
LongMinMag == <<0, 0, 0, 32768>>

\* strtol(s, &end, 10): optional white space, optional sign, digits; the
\* value saturates at LONG_MAX / LONG_MIN; with no digits, end = s
Strtol(s) ==
    LET i0  == SkipWhile(s, 1, Spaces)
        sgn == i0 <= Len(s) /\ s[i0] \in {"-", "+"}
        neg == sgn /\ s[i0] = "-"
        i1  == IF sgn THEN i0 + 1 ELSE i0
        j   == SkipWhile(s, i1, Digits)
        acc == Accumulate(s, i1, j, [mag |-> LongZero, ovf |-> FALSE])
        big == acc.ovf \/ acc.mag[4] > 32767
        min == acc.ovf \/ acc.mag[4] > 32768
                 \/ (acc.mag[4] = 32768 /\ SubSeq(acc.mag, 1, 3) # <<0, 0, 0>>)
    IN  IF j = i1
        THEN [neg |-> FALSE, mag |-> LongZero, end |-> 1]
        ELSE IF neg
        THEN [neg |-> TRUE, mag |-> IF min THEN LongMinMag ELSE acc.mag, end |-> j]
        ELSE [neg |-> FALSE, mag |-> IF big THEN LongMaxMag ELSE acc.mag, end |-> j]

\* (uid_t) / (gid_t) of a long: the low 32 bits, two's complement
CastId(l) ==
    LET lo == l.mag[1]
        hi == l.mag[2]
    IN  IF ~l.neg THEN <<lo, hi>>
        ELSE <<(LimbBase - lo) % LimbBase,
               (LimbMax - hi + (IF lo = 0 THEN 1 ELSE 0)) % LimbBase>>

\* *end == '\0'
AtEnd(s, l) == l.end = Len(s) + 1


(***************************************************************************)
(* The identity database (passwd and group files) and the callers.         *)
(***************************************************************************)
Root == [pw_name |-> <<"r">>, pw_uid |-> U32(0), pw_gid |-> U32(0), pw_dir |-> "/root"]
UserA == [pw_name |-> <<"a">>, pw_uid |-> U32(1), pw_gid |-> U32(1), pw_dir |-> "/home/a"]
\* a second name of uid 1, with another primary group and home
UserAA == [pw_name |-> <<"a", "a">>, pw_uid |-> U32(1), pw_gid |-> U32(2), pw_dir |-> "/home/aa"]
\* a name that starts with a digit
User1A == [pw_name |-> <<"1", "a">>, pw_uid |-> U32(3), pw_gid |-> U32(3), pw_dir |-> "/home/1a"]

GroupA == [gr_name |-> <<"a">>, gr_gid |-> U32(2), gr_mem |-> {<<"a">>}]
Group1A == [gr_name |-> <<"1", "a">>, gr_gid |-> U32(3), gr_mem |-> {<<"a">>, <<"a", "a">>, <<"1", "a">>}]

Databases ==
    { [passwd |-> <<>>, grp |-> <<>>],
      [passwd |-> <<Root, UserA, UserAA, User1A>>, grp |-> <<GroupA, Group1A>>],
      [passwd |-> <<UserAA, UserA>>, grp |-> <<Group1A>>] }

Callers ==
    { [uid |-> U32(0), gid |-> U32(0), groups |-> <<U32(0)>>],
      [uid |-> U32(1), gid |-> U32(5), groups |-> <<U32(5), U32(6)>>] }

\* getpwnam, getpwuid, getgrnam: the first matching record of the file, or NULL
RECURSIVE Getpwnam(_, _)
Getpwnam(passwd, name) ==
    IF passwd = <<>> THEN NULL
    ELSE IF Head(passwd).pw_name = name THEN Ptr(Head(passwd))
    ELSE Getpwnam(Tail(passwd), name)

RECURSIVE Getpwuid(_, _)
Getpwuid(passwd, id) ==
    IF passwd = <<>> THEN NULL
    ELSE IF Head(passwd).pw_uid = id THEN Ptr(Head(passwd))
    ELSE Getpwuid(Tail(passwd), id)

RECURSIVE Getgrnam(_, _)
Getgrnam(grp, name) ==
    IF grp = <<>> THEN NULL
    ELSE IF Head(grp).gr_name = name THEN Ptr(Head(grp))
    ELSE Getgrnam(Tail(grp), name)

\* the groups of a user as getgrouplist reports them: the given gid first,
\* then every other group of the file that lists the user as a member
RECURSIVE MemberGids(_, _, _)
MemberGids(grp, name, g) ==
    IF grp = <<>> THEN <<>>
    ELSE (IF name \in Head(grp).gr_mem /\ Head(grp).gr_gid # g
          THEN <<Head(grp).gr_gid>> ELSE <<>>)
         \o MemberGids(Tail(grp), name, g)

Membership(grp, name, g) == <<g>> \o MemberGids(grp, name, g)

\* str_occurrences with count = 1 in place of count += 1
str_occurs(str, tok) == IF \E k \in 1..Len(str) : str[k] = tok THEN 1 ELSE 0

(***************************************************************************)
(* str_occurrences, strtok and get_gid.                                    *)
(***************************************************************************)
RECURSIVE str_occurrences(_, _)
str_occurrences(str, tok) ==
    IF str = <<>> THEN 0
    ELSE (IF Head(str) = tok THEN 1 ELSE 0) + str_occurrences(Tail(str), tok)

\* the first index j >= i of s with s[j] \in S, or Len(s) + 1
RECURSIVE SkipUntil(_, _, _)
SkipUntil(s, i, S) ==
    IF i <= Len(s) /\ s[i] \notin S THEN SkipUntil(s, i + 1, S) ELSE i

\* strtok on the text that is left: the token (NULL when only delimiters
\* are left) and the text after the delimiter that ended the token
Strtok(str, delim) ==
    LET i == SkipWhile(str, 1, {delim})
        j == SkipUntil(str, i, {delim})
    IN  IF i > Len(str) THEN [token |-> NULL, save |-> <<>>]
        ELSE [token |-> Ptr(SubSeq(str, i, j - 1)),
              save |-> SubSeq(str, j + 1, Len(str))]

\* get_gid(ref): "ok" with the gid, or "err" (getgrnam found nothing);
\* lookup tells whether getgrnam was called
get_gid(grp, ref) ==
    LET l == Strtol(ref)
        gr == Getgrnam(grp, ref)
    IN  IF AtEnd(ref, l)
        THEN [st |-> "ok", gid |-> CastId(l), lookup |-> FALSE]
        ELSE IF gr = NULL
        THEN [st |-> "err", gid |-> U32(0), lookup |-> TRUE]
        ELSE [st |-> "ok", gid |-> gr[1].gr_gid, lookup |-> TRUE]


(***************************************************************************)
(* The inputs: the argument vector, the databases, the caller.             *)
(***************************************************************************)
MaxUserLen == 2
MaxGroupLen == 3

UserChars == {"0", "1", "a", "-", " "}
GroupChars == {"1", "a", ",", "-"}

Strings(chars, n) == UNION {[1..k -> chars] : k \in 0..n}

\* decimal tokens beyond 32 and 64 bits: 2^32, 2^32 + 1, 2^63
WideTokens ==
    { <<"4", "2", "9", "4", "9", "6", "7", "2", "9", "6">>,
      <<"4", "2", "9", "4", "9", "6", "7", "2", "9", "7">>,
      <<"9", "2", "2", "3", "3", "7", "2", "0", "3", "6", "8", "5", "4", "7", "7",
        "5", "8", "0", "8">> }

\* three tokens, and a group part that holds a colon
LongGroupParts ==
    { <<"1", ",", "a", ",", "1">>, <<"a", ":", "1">> }

UserParts == Strings(UserChars, MaxUserLen) \cup WideTokens
GroupParts == Strings(GroupChars, MaxGroupLen) \cup WideTokens \cup LongGroupParts
BasicUsers == {<<>>, <<"a">>, <<"1">>}
BasicSuffixes == {<<>>, <<":">>, <<":", "1">>, <<":", "a">>}

UserSpecs ==
    {u \o x : u \in UserParts, x \in BasicSuffixes}
        \cup {u \o <<":">> \o g : u \in BasicUsers, g \in GroupParts}

Prog == <<"s">>
Cmd == <<"c">>
Argvs ==
    {<<Prog>>} \cup {<<Prog, x>> : x \in UserParts}
        \cup {<<Prog, x, Cmd>> : x \in UserSpecs}

Unset == "(unset)"
InitialPath == "/bin"
InitialHomes == {Unset, "/old"}

VARIABLES
    argv,       \* the argument vector
    db,         \* the passwd and group files
    caller,     \* the credentials the process starts with
    environ,    \* the environment: HOME and PATH
    cred,       \* the credentials of the process: uid, gid, groups
    pc,         \* the place in main, or "exited", "crashed", "replaced"
    exitcode,   \* the exit status, -1 while the process runs
    errmsg,     \* what err() printed, NULL if nothing
    usageout,   \* whether usage() printed
    user, group, uid, gid, pw,
    group_cnt, gidlist, i, token, save,
    ngroups, glist, r,
    calls,      \* the library and system calls made so far, in order
    retries,    \* iterations of the getgrouplist loop so far
    oob         \* whether a write went past the end of a buffer

inputs == <<argv, db, caller>>
outputs == <<exitcode, errmsg, usageout>>
ids == <<uid, gid, pw>>
parts == <<user, group>>
multi == <<group_cnt, gidlist, i, token, save>>
derived == <<ngroups, glist, r, retries>>
vars == <<inputs, environ, cred, pc, outputs, ids, parts, multi, derived, calls, oob>>

Init ==
    /\ argv \in Argvs
    /\ db \in Databases
    /\ caller \in Callers
    /\ \E h \in InitialHomes : environ = [HOME |-> h, PATH |-> InitialPath]
    /\ cred = caller
    /\ pc = "main"
    /\ exitcode = -1
    /\ errmsg = NULL
    /\ usageout = FALSE
    /\ user = <<>> /\ group = NULL
    /\ uid = U32(0) /\ gid = U32(0) /\ pw = NULL
    /\ group_cnt = 0 /\ gidlist = NULL /\ i = 0 /\ token = NULL /\ save = <<>>
    /\ ngroups = 0 /\ glist = NULL /\ r = 0 /\ retries = 0
    /\ calls = <<>>
    /\ oob = FALSE

\* err(1, fmt, arg): the message, then exit(1)
Err(fmt, arg) ==
    /\ errmsg' = Ptr([fmt |-> fmt, arg |-> arg])
    /\ exitcode' = 1
    /\ usageout' = usageout
    /\ pc' = "exited"

Running(next) ==
    /\ pc' = next
    /\ UNCHANGED outputs

Call(op, arg, ok) == [op |-> op, arg |-> arg, ok |-> ok]

\* Usage that exits with status 1
UsageExit1 ==
    /\ pc = "main"
    /\ Len(argv) < 3
    /\ uid' = caller.uid /\ gid' = caller.gid /\ pw' = pw
    /\ usageout' = TRUE
    /\ exitcode' = 1
    /\ errmsg' = errmsg
    /\ pc' = "exited"
    /\ UNCHANGED <<inputs, environ, cred, parts, multi, derived, calls, oob>>

\* lines 55-60: main with fewer than two positional arguments
Usage ==
    /\ pc = "main"
    /\ Len(argv) < 3
    /\ uid' = caller.uid /\ gid' = caller.gid /\ pw' = pw
    /\ usageout' = TRUE
    /\ exitcode' = 0
    /\ errmsg' = errmsg
    /\ pc' = "exited"
    /\ UNCHANGED <<inputs, environ, cred, parts, multi, derived, calls, oob>>

\* strrchr in place of strchr: the index of the last c in s
Strrchr(s, c) ==
    LET at == {k \in 1..Len(s) : s[k] = c}
    IN  IF at = {} THEN 0 ELSE CHOOSE k \in at : \A j \in at : j <= k

\* strchr(s, c): the index of the first c in s, 0 if there is none
Strchr(s, c) ==
    LET k == SkipUntil(s, 1, {c}) IN IF k > Len(s) THEN 0 ELSE k

\* lines 55-67: the user-spec is cut at its first colon
SplitSpec ==
    /\ pc = "main"
    /\ Len(argv) >= 3
    /\ uid' = caller.uid /\ gid' = caller.gid /\ pw' = pw
    /\ LET k == Strchr(argv[2], ":")
       IN  /\ user' = IF k = 0 THEN argv[2] ELSE SubSeq(argv[2], 1, k - 1)
           /\ group' = IF k = 0 THEN NULL
                       ELSE Ptr(SubSeq(argv[2], k + 1, Len(argv[2])))
    /\ Running("resolve")
    /\ UNCHANGED <<inputs, environ, cred, multi, derived, calls, oob>>

\* the gid of the passwd record not taken
RecordGidKept(pwp, g) == g

\* the gid that a passwd record, if any, gives (lines 86-90)
RecordGid(pwp, g) == IF pwp # NULL THEN pwp[1].pw_gid ELSE g
RecordUid(pwp, u) == IF pwp # NULL THEN pwp[1].pw_uid ELSE u

\* Resolve that always looks the resolved uid up again with getpwuid
ResolveReverse(passwd, usr, u, g) ==
    LET l == Strtol(usr)
        numeric == usr # <<>> /\ AtEnd(usr, l)
        byname == usr # <<>> /\ ~AtEnd(usr, l)
        pwn == Getpwnam(passwd, usr)
        u1 == IF numeric THEN CastId(l) ELSE RecordUid(pwn, u)
        pw2 == Getpwuid(passwd, u1)
    IN  IF byname /\ pwn = NULL
        THEN [st |-> "err", uid |-> u, gid |-> g, pw |-> NULL,
              calls |-> <<Call("getpwnam", usr, FALSE)>>]
        ELSE [st |-> "ok",
              uid |-> RecordUid(pw2, u1),
              gid |-> RecordGid(pw2, g),
              pw |-> pw2,
              calls |-> (IF byname THEN <<Call("getpwnam", usr, TRUE)>> ELSE <<>>)
                        \o <<Call("getpwuid", u1, pw2 # NULL)>>]

\* lines 69-90: the user part to uid, gid and passwd record
Resolve(passwd, usr, u, g) ==
    LET l == Strtol(usr)
        numeric == usr # <<>> /\ AtEnd(usr, l)
        byname == usr # <<>> /\ ~AtEnd(usr, l)
        pwn == Getpwnam(passwd, usr)
        u1 == IF numeric THEN CastId(l) ELSE u
        pw1 == IF byname THEN pwn ELSE NULL
        pw2 == IF pw1 = NULL THEN Getpwuid(passwd, u1) ELSE pw1
    IN  IF byname /\ pwn = NULL
        THEN [st |-> "err", uid |-> u, gid |-> g, pw |-> NULL,
              calls |-> <<Call("getpwnam", usr, FALSE)>>]
        ELSE [st |-> "ok",
              uid |-> RecordUid(pw2, u1),
              gid |-> RecordGid(pw2, g),
              pw |-> pw2,
              calls |-> (IF byname THEN <<Call("getpwnam", usr, TRUE)>> ELSE <<>>)
                        \o (IF pw1 = NULL
                            THEN <<Call("getpwuid", u1, pw2 # NULL)>> ELSE <<>>)]

ResolveUser ==
    /\ pc = "resolve"
    /\ LET res == Resolve(db.passwd, user, uid, gid)
       IN  /\ calls' = calls \o res.calls
           /\ uid' = res.uid /\ gid' = res.gid /\ pw' = res.pw
           /\ IF res.st = "err" THEN Err("getpwnam(%s)", user)
              ELSE Running("sethome")
    /\ UNCHANGED <<inputs, environ, cred, parts, multi, derived, oob>>

\* setenv(name, value, overwrite)
Setenv(env, name, value, overwrite) ==
    IF overwrite # 0 \/ env[name] = Unset THEN [env EXCEPT ![name] = value] ELSE env

\* SetHome that passes 0 as the overwrite flag
SetHomeNoOverwrite ==
    /\ pc = "sethome"
    /\ LET home == IF pw # NULL THEN pw[1].pw_dir ELSE "/"
       IN  /\ environ' = Setenv(environ, "HOME", home, 0)
           /\ calls' = Append(calls, Call("setenv", home, TRUE))
    /\ Running("group")
    /\ UNCHANGED <<inputs, cred, ids, parts, multi, derived, oob>>

\* line 92
SetHome ==
    /\ pc = "sethome"
    /\ LET home == IF pw # NULL THEN pw[1].pw_dir ELSE "/"
       IN  /\ environ' = Setenv(environ, "HOME", home, 1)
           /\ calls' = Append(calls, Call("setenv", home, TRUE))
    /\ Running("group")
    /\ UNCHANGED <<inputs, cred, ids, parts, multi, derived, oob>>


(***************************************************************************)
(* The supplementary groups: the explicit group part (lines 94-129).       *)
(***************************************************************************)
\* what malloc'ed memory that was never written may hold
GarbageIds == {U32(0), <<LimbMax, LimbMax>>}

\* a buffer as a system call reads it: n entries, the ones never written
\* (NULL) or past the end of the buffer holding anything
Unwritten(buf, n) == {k \in 1..n : k > Len(buf) \/ buf[k] = NULL}

ReadIds(buf, n, fill) ==
    [k \in 1..n |-> IF k \in Unwritten(buf, n) THEN fill[k] ELSE buf[k]]

\* the passwd record kept although a group part is given
PwKept(pwp) == pwp

\* line 97: the passwd record is dropped when a group part is given
PwAfterGroup(pwp) == NULL

\* setgroups(n, list) with its outcome, then `next` or err()
Setgroups(n, list, ok, next, fmt, arg) ==
    /\ calls' = Append(calls, Call("setgroups", [n |-> n, list |-> list], ok))
    /\ cred' = IF ok THEN [cred EXCEPT !.groups = list] ELSE cred
    /\ IF ok THEN Running(next) ELSE Err(fmt, arg)

\* lines 94-101
GroupSpecified ==
    /\ pc = "group"
    /\ group # NULL /\ group[1] # <<>>
    /\ pw' = PwAfterGroup(pw)
    /\ group_cnt' = str_occurrences(group[1], ",") + 1
    /\ Running(IF group_cnt' = 1 THEN "single" ELSE "multi")
    /\ UNCHANGED <<inputs, environ, cred, uid, gid, parts, gidlist, i, token, save,
                   derived, calls, oob>>

\* line 94, the condition false
GroupAbsent ==
    /\ pc = "group"
    /\ ~(group # NULL /\ group[1] # <<>>)
    /\ Running("derive")
    /\ UNCHANGED <<inputs, environ, cred, ids, parts, multi, derived, calls, oob>>

\* the getgrnam call of get_gid, if it made one
GidCalls(ref, res) ==
    IF res.lookup THEN <<Call("getgrnam", ref, res.st = "ok")>> ELSE <<>>

\* SingleGetGid that goes on although getgrnam found nothing
SingleGetGidUnchecked ==
    /\ pc = "single"
    /\ LET res == get_gid(db.grp, group[1])
       IN  /\ calls' = calls \o GidCalls(group[1], res)
           /\ gid' = IF res.st = "ok" THEN res.gid ELSE gid
           /\ Running("single_setgroups")
    /\ UNCHANGED <<inputs, environ, cred, uid, pw, parts, multi, derived, oob>>

\* line 103
SingleGetGid ==
    /\ pc = "single"
    /\ LET res == get_gid(db.grp, group[1])
       IN  /\ calls' = calls \o GidCalls(group[1], res)
           /\ gid' = IF res.st = "ok" THEN res.gid ELSE gid
           /\ IF res.st = "ok" THEN Running("single_setgroups")
              ELSE Err("getgrnam(%s)", group[1])
    /\ UNCHANGED <<inputs, environ, cred, uid, pw, parts, multi, derived, oob>>

\* lines 104-105
SingleSetgroups ==
    /\ pc = "single_setgroups"
    /\ \E ok \in BOOLEAN : Setgroups(1, <<gid>>, ok, "derive", "setgroups(%i)", gid)
    /\ UNCHANGED <<inputs, environ, ids, parts, multi, derived, oob>>

\* lines 113-119: the list is allocated, the first token resolved
MultiFirst ==
    /\ pc = "multi"
    /\ LET tk == Strtok(group[1], ",")
           res == get_gid(db.grp, tk.token[1])
           nx == Strtok(tk.save, ",")
       IN  IF tk.token = NULL
           THEN \* get_gid(NULL): strtol reads through a null pointer
                /\ pc' = "crashed"
                /\ gidlist' = Ptr([k \in 1..group_cnt |-> NULL])
                /\ UNCHANGED <<outputs, gid, token, save, calls>>
           ELSE /\ calls' = calls \o GidCalls(tk.token[1], res)
                /\ IF res.st = "ok"
                   THEN /\ gid' = res.gid
                        /\ gidlist' = Ptr([k \in 1..group_cnt |->
                                             IF k = 1 THEN res.gid ELSE NULL])
                        /\ token' = nx.token
                        /\ save' = nx.save
                        /\ Running("multi_loop")
                   ELSE /\ gidlist' = Ptr([k \in 1..group_cnt |-> NULL])
                        /\ UNCHANGED <<gid, token, save>>
                        /\ Err("getgrnam(%s)", tk.token[1])
    /\ i' = 0
    /\ UNCHANGED <<inputs, environ, cred, uid, pw, parts, group_cnt, derived, oob>>

\* lines 120-125: one more token
MultiNext ==
    /\ pc = "multi_loop"
    /\ token # NULL
    /\ LET res == get_gid(db.grp, token[1])
           nx == Strtok(save, ",")
       IN  /\ i' = i + 1
           /\ calls' = calls \o GidCalls(token[1], res)
           /\ IF res.st = "ok"
              THEN /\ gidlist' = IF i' < group_cnt
                                 THEN Ptr([gidlist[1] EXCEPT ![i' + 1] = res.gid])
                                 ELSE gidlist
                   /\ oob' = (oob \/ i' >= group_cnt)
                   /\ token' = nx.token
                   /\ save' = nx.save
                   /\ Running("multi_loop")
              ELSE /\ UNCHANGED <<gidlist, oob, token, save>>
                   /\ Err("getgrnam(%s)", token[1])
    /\ UNCHANGED <<inputs, environ, cred, ids, parts, group_cnt, derived>>

\* lines 126-127
MultiSetgroups ==
    /\ pc = "multi_loop"
    /\ token = NULL
    /\ \E ok \in BOOLEAN, fill \in [Unwritten(gidlist[1], group_cnt) -> GarbageIds] :
          Setgroups(group_cnt, ReadIds(gidlist[1], group_cnt, fill), ok,
                    "derive", "setgroups()", NULL)
    /\ UNCHANGED <<inputs, environ, ids, parts, multi, derived, oob>>


(***************************************************************************)
(* The supplementary groups of the passwd record (lines 131-151).          *)
(***************************************************************************)
MaxRetries == 3
MaxAdded == 1

\* a group another process adds to the group file while the loop runs
AddedGid == U32(9)

\* what one getgrouplist call may see: the membership of the group file,
\* with up to MaxAdded groups added meanwhile
Reported(grp, name, g) ==
    {Membership(grp, name, g) \o [k \in 1..n |-> AddedGid] : n \in 0..MaxAdded}

Min(a, b) == IF a < b THEN a ELSE b

\* getgrouplist(user, group, groups, &ngroups) that found the list `total`:
\* copies what fits, stores the count, returns it or -1 if it did not fit
GetgrouplistFound(buf, n, total) ==
    [r |-> IF Len(total) > n THEN -1 ELSE Len(total),
     why |-> IF Len(total) > n THEN "small" ELSE "ok",
     total |-> total,
     ngroups |-> Len(total),
     buf |-> [k \in 1..Len(buf) |-> IF k <= Min(n, Len(total)) THEN total[k]
                                    ELSE buf[k]],
     oob |-> Min(n, Len(total)) > Len(buf)]

\* getgrouplist that failed for another reason: -1, nothing stored
GetgrouplistFailed(buf, n) ==
    [r |-> -1, why |-> "other", total |-> <<>>, ngroups |-> n, buf |-> buf,
     oob |-> FALSE]

\* the buffer a pointer refers to (none behind NULL)
BufOf(p) == IF p = NULL THEN <<>> ELSE p[1]

\* lines 131-134, pw != NULL
DeriveEnter ==
    /\ pc = "derive"
    /\ pw # NULL
    /\ ngroups' = 0
    /\ glist' = NULL
    /\ Running("getgrouplist")
    /\ UNCHANGED <<inputs, environ, cred, ids, parts, multi, r, retries, calls, oob>>

\* line 131, pw == NULL
DeriveSkip ==
    /\ pc = "derive"
    /\ pw = NULL
    /\ Running("setgid")
    /\ UNCHANGED <<inputs, environ, cred, ids, parts, multi, derived, calls, oob>>

\* line 138
Getgrouplist ==
    /\ pc = "getgrouplist"
    /\ \E res \in {GetgrouplistFound(BufOf(glist), ngroups, t) :
                     t \in Reported(db.grp, pw[1].pw_name, gid)}
                  \cup {GetgrouplistFailed(BufOf(glist), ngroups)} :
          /\ r' = res.r
          /\ ngroups' = res.ngroups
          /\ glist' = IF glist = NULL THEN NULL ELSE Ptr(res.buf)
          /\ oob' = (oob \/ res.oob)
          /\ calls' = Append(calls, Call("getgrouplist",
                                         [name |-> pw[1].pw_name, gid |-> gid,
                                          cap |-> Len(BufOf(glist)), n |-> ngroups,
                                          r |-> res.r, ngroups |-> res.ngroups,
                                          why |-> res.why, total |-> res.total],
                                         res.r >= 0))
    /\ Running("gl_result")
    /\ UNCHANGED <<inputs, environ, cred, ids, parts, multi, retries>>

\* DerivedSetgroups that passes the size of the buffer as the count
DerivedSetgroupsCapacity ==
    /\ pc = "gl_result"
    /\ r >= 0
    /\ \E ok \in BOOLEAN,
          fill \in [Unwritten(BufOf(glist), Len(BufOf(glist))) -> GarbageIds] :
          Setgroups(Len(BufOf(glist)),
                    ReadIds(BufOf(glist), Len(BufOf(glist)), fill), ok,
                    "setgid", "setgroups", NULL)
    /\ UNCHANGED <<inputs, environ, ids, parts, multi, derived, oob>>

\* lines 140-145
DerivedSetgroups ==
    /\ pc = "gl_result"
    /\ r >= 0
    /\ \E ok \in BOOLEAN, fill \in [Unwritten(BufOf(glist), ngroups) -> GarbageIds] :
          Setgroups(ngroups, ReadIds(BufOf(glist), ngroups, fill), ok,
                    "setgid", "setgroups", NULL)
    /\ UNCHANGED <<inputs, environ, ids, parts, multi, derived, oob>>

\* realloc(p, n * sizeof(gid_t)) that succeeds: the old contents, cut or
\* followed by unwritten entries
Realloc(p, n) ==
    Ptr([k \in 1..n |-> IF k <= Len(BufOf(p)) THEN BufOf(p)[k] ELSE NULL])

\* GrowList that passes the count to realloc as a number of bytes
GrowListBytes ==
    /\ pc = "gl_result"
    /\ r < 0
    /\ retries < MaxRetries
    /\ retries' = retries + 1
    /\ \E ok \in BOOLEAN :
          /\ glist' = IF ok THEN Realloc(glist, ngroups \div 4) ELSE NULL
          /\ calls' = Append(calls, Call("realloc", ngroups, ok))
          /\ IF ok THEN Running("getgrouplist") ELSE Err("malloc", NULL)
    /\ UNCHANGED <<inputs, environ, cred, ids, parts, multi, ngroups, r, oob>>

\* lines 147-149
GrowList ==
    /\ pc = "gl_result"
    /\ r < 0
    /\ retries < MaxRetries
    /\ retries' = retries + 1
    /\ \E ok \in BOOLEAN :
          /\ glist' = IF ok THEN Realloc(glist, ngroups) ELSE NULL
          /\ calls' = Append(calls, Call("realloc", ngroups, ok))
          /\ IF ok THEN Running("getgrouplist") ELSE Err("malloc", NULL)
    /\ UNCHANGED <<inputs, environ, cred, ids, parts, multi, ngroups, r, oob>>

(***************************************************************************)
(* gid, uid, exec (lines 153-160).                                         *)
(***************************************************************************)
\* Setgid that goes on to setuid although setgid was rejected
SetgidUnchecked ==
    /\ pc = "setgid"
    /\ \E ok \in BOOLEAN :
          /\ calls' = Append(calls, Call("setgid", gid, ok))
          /\ cred' = IF ok THEN [cred EXCEPT !.gid = gid] ELSE cred
          /\ Running("setuid")
    /\ UNCHANGED <<inputs, environ, ids, parts, multi, derived, oob>>

\* lines 153-154
Setgid ==
    /\ pc = "setgid"
    /\ \E ok \in BOOLEAN :
          /\ calls' = Append(calls, Call("setgid", gid, ok))
          /\ cred' = IF ok THEN [cred EXCEPT !.gid = gid] ELSE cred
          /\ IF ok THEN Running("setuid") ELSE Err("setgid(%i)", gid)
    /\ UNCHANGED <<inputs, environ, ids, parts, multi, derived, oob>>

\* Setuid that goes on to exec although setuid was rejected
SetuidUnchecked ==
    /\ pc = "setuid"
    /\ \E ok \in BOOLEAN :
          /\ calls' = Append(calls, Call("setuid", uid, ok))
          /\ cred' = IF ok THEN [cred EXCEPT !.uid = uid] ELSE cred
          /\ Running("exec")
    /\ UNCHANGED <<inputs, environ, ids, parts, multi, derived, oob>>

\* lines 156-157
Setuid ==
    /\ pc = "setuid"
    /\ \E ok \in BOOLEAN :
          /\ calls' = Append(calls, Call("setuid", uid, ok))
          /\ cred' = IF ok THEN [cred EXCEPT !.uid = uid] ELSE cred
          /\ IF ok THEN Running("exec") ELSE Err("setuid(%i)", uid)
    /\ UNCHANGED <<inputs, environ, ids, parts, multi, derived, oob>>

\* lines 159-160: the process image is replaced, or err()
Execvp ==
    /\ pc = "exec"
    /\ \E ok \in BOOLEAN :
          /\ calls' = Append(calls, Call("execvp", SubSeq(argv, 3, Len(argv)), ok))
          /\ IF ok THEN Running("replaced") ELSE Err("%s", argv[3])
    /\ UNCHANGED <<inputs, environ, cred, ids, parts, multi, derived, oob>>

Next ==
    \/ Usage
    \/ SplitSpec
    \/ ResolveUser
    \/ SetHome
    \/ GroupSpecified
    \/ GroupAbsent
    \/ SingleGetGid
    \/ SingleSetgroups
    \/ MultiFirst
    \/ MultiNext
    \/ MultiSetgroups
    \/ DeriveEnter
    \/ DeriveSkip
    \/ Getgrouplist
    \/ DerivedSetgroups
    \/ GrowList
    \/ Setgid
    \/ Setuid
    \/ Execvp

Spec == Init /\ [][Next]_vars

\* lines 147-149 once the loop has run MaxRetries times: the loop goes on
\* as before, and the log, to stay finite, keeps the latest iteration in
\* place of the one before it
GrowListAgain ==
    /\ pc = "gl_result"
    /\ r < 0
    /\ retries >= MaxRetries
    /\ \E ok \in BOOLEAN :
          /\ glist' = IF ok THEN Realloc(glist, ngroups) ELSE NULL
          /\ calls' = Append(SubSeq(calls, 1, Len(calls) - 2),
                             Call("realloc", ngroups, ok))
          /\ IF ok THEN Running("getgrouplist") ELSE Err("malloc", NULL)
    /\ UNCHANGED <<inputs, environ, cred, ids, parts, multi, ngroups, r, retries, oob>>

FairNext == Next \/ GrowListAgain

\* main with the loop of lines 136-150 unbounded; the process is never
\* suspended for ever: it takes its next step as long as it has one
\* the inputs of the runs whose loop is followed without a bound
FairArgvs ==
    {<<Prog>>, <<Prog, <<"a">>>>}
        \cup {<<Prog, u \o x, Cmd>> : u \in BasicUsers,
                x \in BasicSuffixes \cup {<<":", "1", ",", "a">>, <<":", ",">>}}

FairInit == Init /\ argv \in FairArgvs

FairSpec == FairInit /\ [][FairNext]_vars /\ WF_vars(FairNext)


(***************************************************************************)
(* The claims.                                                             *)
(***************************************************************************)
IdOps == {"setgroups", "setgid", "setuid"}
LookupOps == {"getpwnam", "getgrnam"}

Made(op) == {k \in 1..Len(calls) : calls[k].op = op}
MadeAny(ops) == {k \in 1..Len(calls) : calls[k].op \in ops}
HasGroupPart == group # NULL /\ group[1] # <<>>

\* C1: the privilege operations occur in the order setgroups, setgid, setuid,
\* execvp: no setgid or setgroups after a setuid, no setgroups after a
\* setgid, a setuid only after a successful setgid, and an execvp only after
\* a successful setuid.
C1_PrivilegeOrder ==
    /\ \A j \in Made("setuid") : \A k \in MadeAny({"setgid", "setgroups"}) : k < j
    /\ \A j \in Made("setgid") : \A k \in Made("setgroups") : k < j
    /\ \A k \in Made("setuid") : \E j \in Made("setgid") : j < k /\ calls[j].ok
    /\ \A k \in Made("execvp") : \E j \in Made("setuid") : j < k /\ calls[j].ok

\* a run that made all four calls and was replaced by the command
C1_Witness ==
    /\ pc = "replaced"
    /\ Made("setgroups") # {} /\ Made("setgid") # {} /\ Made("setuid") # {}
    /\ Made("execvp") # {}

\* C2: every run that reaches setgid has made a successful setgroups call
\* before it.
C2_SetgroupsBeforeSetgid ==
    \A k \in Made("setgid") : \E j \in Made("setgroups") : j < k /\ calls[j].ok

\* the credentials after the successful calls of a log, applied in order
RECURSIVE Applied(_, _)
Applied(c, log) ==
    IF log = <<>> THEN c
    ELSE LET x == Head(log)
             c1 == IF ~x.ok THEN c
                   ELSE IF x.op = "setgroups" THEN [c EXCEPT !.groups = x.arg.list]
                   ELSE IF x.op = "setgid" THEN [c EXCEPT !.gid = x.arg]
                   ELSE IF x.op = "setuid" THEN [c EXCEPT !.uid = x.arg]
                   ELSE c
         IN  Applied(c1, Tail(log))

\* C3: a rejected setgroups, setgid or setuid is the last call of the run:
\* the process has exited with a non-zero status and a message, and its
\* credentials are the ones the earlier successful calls set.
C3_FailFast ==
    /\ \A k \in MadeAny(IdOps) :
          ~calls[k].ok => /\ k = Len(calls)
                          /\ pc = "exited"
                          /\ exitcode # 0 /\ exitcode # -1
                          /\ errmsg # NULL
    /\ cred = Applied(caller, calls)

\* setuid was rejected after setgroups and setgid changed the credentials
C3_Witness ==
    /\ pc = "exited"
    /\ calls # <<>>
    /\ calls[Len(calls)].op = "setuid" /\ ~calls[Len(calls)].ok
    /\ cred.gid # caller.gid
    /\ cred.groups # caller.groups
    /\ cred.uid = caller.uid


AllDigits(str) == str # <<>> /\ \A k \in 1..Len(str) : str[k] \in Digits

\* the integer value of a string of decimal digits, in n limbs
RECURSIVE DecimalValue(_, _)
DecimalValue(str, acc) ==
    IF str = <<>> THEN acc
    ELSE DecimalValue(Tail(str), MulAddLimbs(acc, 10, DigitVal(Head(str)))[1])

Zeros(n) == [k \in 1..n |-> 0]
IntegerValue(str) == DecimalValue(str, Zeros(Len(str) + 2))
\* whether a uid_t/gid_t is the integer value of a string of digits
IsValueOf(id, str) == id \o Zeros(Len(str)) = IntegerValue(str)

\* C4: a user or group token of decimal digits only resolves to the integer
\* value of the string, whatever its size.
C4_NumericIdExact ==
    /\ (pc = "sethome" /\ AllDigits(user)) => IsValueOf(uid, user)
    /\ (pc = "single_setgroups" /\ AllDigits(group[1])) => IsValueOf(gid, group[1])

\* C5: a non-empty user token or a group token is taken as a numeric id
\* (no getpwnam / getgrnam call) exactly if it consists of decimal digits.
C5_NumericIffDigits ==
    /\ (pc = "sethome" /\ user # <<>>) => (AllDigits(user) <=> Made("getpwnam") = {})
    /\ pc = "single_setgroups" => (AllDigits(group[1]) <=> Made("getgrnam") = {})

\* C6: a name lookup that finds nothing is the last call of the run: the
\* process has exited with a non-zero status and a message that holds the
\* name, and no setgroups, setgid, setuid or execvp was made; every name
\* lookup of a run precedes the first identity-changing call.
C6_LookupFailure ==
    /\ \A k \in MadeAny(LookupOps) :
          ~calls[k].ok => /\ k = Len(calls)
                          /\ pc = "exited"
                          /\ exitcode # 0 /\ exitcode # -1
                          /\ errmsg # NULL /\ errmsg[1].arg = calls[k].arg
                          /\ MadeAny(IdOps \cup {"execvp"}) = {}
    /\ \A k \in MadeAny(LookupOps) : \A j \in MadeAny(IdOps \cup {"execvp"}) : k < j

\* a group name of a list was not found after the user and an earlier group
\* were resolved
C6_Witness ==
    /\ pc = "exited"
    /\ Made("getgrnam") # {}
    /\ calls[Len(calls)].op = "getgrnam" /\ ~calls[Len(calls)].ok
    /\ Len(calls) > 2
    /\ group_cnt > 1 /\ i > 0

\* the comma-separated tokens of a group part, empty ones dropped
RECURSIVE SplitTokens(_)
SplitTokens(str) ==
    IF str = <<>> THEN <<>>
    ELSE LET j == SkipUntil(str, 1, {","})
         IN  (IF j = 1 THEN <<>> ELSE <<SubSeq(str, 1, j - 1)>>)
             \o SplitTokens(SubSeq(str, j + 1, Len(str)))

TokenGids(str) ==
    LET T == SplitTokens(str) IN [t \in 1..Len(T) |-> get_gid(db.grp, T[t]).gid]

\* C7: with a group part, setgroups gets exactly the gids of the tokens in
\* their order, the count is the number of tokens, and setgid gets the gid
\* of the first token.
C7_GroupListExact ==
    HasGroupPart =>
        /\ \A k \in Made("setgroups") :
              /\ calls[k].arg.list = TokenGids(group[1])
              /\ calls[k].arg.n = Len(SplitTokens(group[1]))
        /\ \A k \in Made("setgid") : calls[k].arg = TokenGids(group[1])[1]

EmptyUser == pc # "main" /\ Len(argv) >= 3 /\ user = <<>>

\* C9 as stated: with an empty user part setuid gets the caller's uid and,
\* without a group part, setgid gets the caller's gid, whatever the passwd
\* file holds.
C9_EmptyUserKeepsCaller ==
    EmptyUser =>
        /\ \A k \in Made("setuid") : calls[k].arg = caller.uid
        /\ ~HasGroupPart => \A k \in Made("setgid") : calls[k].arg = caller.gid

\* C9 as amended: with an empty user part setuid gets the caller's uid;
\* without a group part setgid gets the gid of the passwd record of that
\* uid if there is one, and the caller's gid only if there is none.
C9_EmptyUserDefaults ==
    EmptyUser =>
        /\ \A k \in Made("setuid") : calls[k].arg = caller.uid
        /\ ~HasGroupPart =>
              \A k \in Made("setgid") :
                 calls[k].arg = IF Getpwuid(db.passwd, caller.uid) = NULL
                                THEN caller.gid
                                ELSE Getpwuid(db.passwd, caller.uid)[1].pw_gid

\* an empty user part, no group part, and a passwd record of the caller's uid
\* whose gid is not the caller's
C9_Witness ==
    /\ EmptyUser /\ ~HasGroupPart
    /\ pc = "replaced"
    /\ Getpwuid(db.passwd, caller.uid) # NULL
    /\ Getpwuid(db.passwd, caller.uid)[1].pw_gid # caller.gid
    /\ cred.gid = Getpwuid(db.passwd, caller.uid)[1].pw_gid
    /\ cred.uid = caller.uid

\* the run ended before or in the resolution of the user
EndedEarly ==
    /\ pc = "exited"
    /\ usageout \/ \E k \in Made("getpwnam") : ~calls[k].ok

\* the home directory of the passwd record the lookups of the run found
ExpectedHome ==
    IF \A k \in MadeAny({"getpwnam", "getpwuid"}) : ~calls[k].ok THEN "/"
    ELSE IF Made("getpwnam") # {} THEN Getpwnam(db.passwd, user)[1].pw_dir
    ELSE Getpwuid(db.passwd, calls[CHOOSE k \in Made("getpwuid") : TRUE].arg)[1].pw_dir

\* C10: once the user is resolved, HOME is set, before any privilege step and
\* any exec, to the home directory of the passwd record found, or to "/" if
\* none was found, with or without a group part; PATH is never changed.
C10_HomeSet ==
    /\ environ.PATH = InitialPath
    /\ \A k \in MadeAny(IdOps \cup {"execvp"}) : \E j \in Made("setenv") : j < k
    /\ \/ pc \in {"main", "resolve", "sethome"}
       \/ EndedEarly
       \/ /\ Made("setenv") # {}
          /\ environ.HOME = ExpectedHome

\* a run with a group part, replaced by the command with the home
\* directory of the user's record
C10_Witness ==
    /\ pc = "replaced"
    /\ HasGroupPart
    /\ Made("getpwnam") # {}
    /\ environ.HOME = Getpwnam(db.passwd, user)[1].pw_dir
    /\ environ.HOME # "/"


\* the passwd record that the user part resolves to, if any
ResolvedRecord == Resolve(db.passwd, user, caller.uid, caller.gid).pw

\* C11: without a group part, the list passed to setgroups is the list that
\* the getgrouplist call just before it found for the name and the gid of the
\* user's passwd record, the given gid first, and the count is its length,
\* however many calls the loop made before.
C11_DerivedListExact ==
    ~HasGroupPart =>
        \A k \in Made("setgroups") :
            /\ k > 1
            /\ calls[k - 1].op = "getgrouplist"
            /\ calls[k - 1].ok
            /\ calls[k - 1].arg.name = ResolvedRecord[1].pw_name
            /\ calls[k - 1].arg.gid = ResolvedRecord[1].pw_gid
            /\ calls[k - 1].arg.total
                 \in Reported(db.grp, ResolvedRecord[1].pw_name, ResolvedRecord[1].pw_gid)
            /\ calls[k].arg.list = calls[k - 1].arg.total
            /\ calls[k].arg.n = Len(calls[k - 1].arg.total)
            /\ calls[k].arg.list[1] = ResolvedRecord[1].pw_gid

\* the list was applied after the loop ran three times, the last call
\* finding fewer groups than the buffer holds
C11_Witness ==
    /\ ~HasGroupPart
    /\ Cardinality(Made("getgrouplist")) >= 3
    /\ Made("setgroups") # {}
    /\ calls[Len(calls)].op = "setgroups" /\ calls[Len(calls)].ok
    /\ Len(BufOf(glist)) > ngroups
    /\ cred.groups = calls[Len(calls) - 1].arg.total


\* C12: with fewer than two positional arguments main makes no call at all
\* (no setenv, setgroups, setgid, setuid, execvp), leaves the environment and
\* the credentials as they were, and ends by printing the usage text and
\* exiting with status 0, whatever the one argument is.
C12_UsageOnly ==
    Len(argv) < 3 =>
        /\ calls = <<>>
        /\ cred = caller
        /\ environ.HOME \in InitialHomes /\ environ.PATH = InitialPath
        /\ pc \in {"main", "exited"}
        /\ pc = "exited" => (exitcode = 0 /\ usageout /\ errmsg = NULL)

\* usage was printed for a single argument that is a valid user-spec
C12_Witness ==
    /\ Len(argv) = 2
    /\ argv[2] = <<"0">>
    /\ pc = "exited"
    /\ usageout


\* a rejected execvp is the last call: the process has exited with a non-zero
\* status and a message, and the credentials are the ones the calls set
ExecFailureFatal ==
    /\ \A k \in Made("execvp") :
          ~calls[k].ok => /\ k = Len(calls)
                          /\ pc = "exited"
                          /\ exitcode # 0 /\ exitcode # -1
                          /\ errmsg # NULL
    /\ cred = Applied(caller, calls)

\* the run has ended
Ended == pc \in {"exited", "crashed", "replaced"}

\* C13: a rejected execvp ends the run with a non-zero exit status, no
\* further identity call and the credentials as they were set; a run that
\* ends without an exit of the program ends in a successful execvp.
C13_ExecOrExit ==
    /\ ExecFailureFatal
    /\ (Ended /\ pc # "exited") =>
          /\ pc = "replaced"
          /\ calls # <<>>
          /\ calls[Len(calls)].op = "execvp" /\ calls[Len(calls)].ok


Holds(str, c) == \E k \in 1..Len(str) : str[k] = c

\* C14: after the split the user part holds no colon; without a colon in the
\* user-spec there is no group part and the user part is the whole spec;
\* otherwise user part, colon and group part together are the user-spec, so
\* the group part is everything after the first colon, further colons
\* included, and a spec that starts with a colon has an empty user part.
C14_SplitAtFirstColon ==
    (pc # "main" /\ Len(argv) >= 3) =>
        /\ ~Holds(user, ":")
        /\ group = NULL <=> ~Holds(argv[2], ":")
        /\ group = NULL => user = argv[2]
        /\ group # NULL => user \o <<":">> \o group[1] = argv[2]
        /\ (argv[2] # <<>> /\ argv[2][1] = ":") => user = <<>>

\* a user-spec with two colons: the second one is in the group part
C14_Witness ==
    /\ pc = "exited"
    /\ Len(argv) >= 3
    /\ user = <<"a">>
    /\ group # NULL
    /\ Holds(group[1], ":")
    /\ Made("getgrnam") # {}


\* C15: every run ends: the getgrouplist loop is left, by setgroups or by an
\* error exit, whatever the group database answers.
C15_LoopTerminates == <>Ended


\* C16: a getgrouplist call that fails for a reason other than a small buffer
\* is the last call of the run: nothing is retried, no setgroups, setgid,
\* setuid or execvp follows, and the run ends with a non-zero exit status.
C16_OtherFailureFatal ==
    \A k \in 1..Len(calls) :
        (calls[k].op = "getgrouplist" /\ calls[k].arg.why = "other")
            => /\ k = Len(calls)
               /\ pc \in {"gl_result", "exited"}
               /\ pc = "exited" => exitcode # 0


\* the default gid and HOME that a passwd record, if any, supplies
SuppliedBy(rec) ==
    /\ gid = RecordGid(rec, caller.gid)
    /\ environ.HOME = (IF rec # NULL THEN rec[1].pw_dir ELSE "/")

\* C17 as stated: once the user is resolved, the record that supplies the
\* default gid and HOME is the one getpwuid returns for the resolved uid,
\* whether the uid came from a numeric literal or from a name.
C17_ReverseLookupRecord ==
    pc = "group" => /\ pw = Getpwuid(db.passwd, uid)
                    /\ SuppliedBy(Getpwuid(db.passwd, uid))

\* C17 amended: a user part with a letter is looked up by name, and then the
\* record getpwnam returned supplies the default gid and HOME and getpwuid is
\* not called; only when no lookup by name was made (numeric or empty user
\* part) is the record the one getpwuid returns for the uid.
C17_RecordOfTheLookupMade ==
    pc = "group" =>
        /\ Holds(user, "a") => Made("getpwnam") # {}
        /\ Made("getpwnam") # {} => /\ pw = Getpwnam(db.passwd, user)
                                    /\ pw # NULL
                                    /\ Made("getpwuid") = {}
        /\ Made("getpwnam") = {} => /\ Made("getpwuid") # {}
                                    /\ pw = Getpwuid(db.passwd, uid)
        /\ SuppliedBy(pw)

\* a name whose uid another entry of the passwd file has first
C17_Witness ==
    /\ pc = "group"
    /\ Made("getpwnam") # {}
    /\ pw # Getpwuid(db.passwd, uid)
    /\ gid # Getpwuid(db.passwd, uid)[1].pw_gid


\* the getgrouplist call before call k of the log, or 0
PreviousQuery(k) ==
    IF \E j \in Made("getgrouplist") : j < k
    THEN CHOOSE j \in Made("getgrouplist") :
            j < k /\ \A h \in Made("getgrouplist") : h < k => h <= j
    ELSE 0

\* C18: every getgrouplist call gets a buffer of at least the ngroups entries
\* it is told of: 0 entries and no buffer on the first call, exactly the count
\* left by the call before on the later ones; getgrouplist writes nothing
\* outside the buffer, and the ngroups entries setgroups reads were all
\* written by getgrouplist.
C18_BufferCoversCount ==
    /\ \A k \in Made("getgrouplist") :
          /\ calls[k].arg.cap >= calls[k].arg.n
          /\ PreviousQuery(k) = 0 => calls[k].arg.n = 0 /\ calls[k].arg.cap = 0
          /\ PreviousQuery(k) # 0 =>
                /\ calls[k].arg.n = calls[PreviousQuery(k)].arg.ngroups
                /\ calls[k].arg.cap = calls[k].arg.n
    /\ Made("getgrouplist") # {} => ~oob
    /\ (pc = "gl_result" /\ r >= 0) =>
          /\ ngroups <= Len(BufOf(glist))
          /\ Unwritten(BufOf(glist), ngroups) = {}

\* a list that did not fit at first, fetched again and handed to setgroups
C18_Witness ==
    /\ Cardinality(Made("getgrouplist")) >= 2
    /\ \E k \in Made("setgroups") : calls[k].ok /\ calls[k].arg.n >= 2
    /\ pc = "exited"


\* C19: in the multi-group path every write to gidlist has an index below
\* group_cnt: gidlist has group_cnt slots, the index of the last write is
\* below group_cnt, and while a token is left the next index is too.
C19_WritesInBounds ==
    /\ group_cnt > 1 => ~oob
    /\ pc = "multi_loop" =>
          /\ Len(BufOf(gidlist)) = group_cnt
          /\ group_cnt = str_occurrences(group[1], ",") + 1
          /\ i < group_cnt
          /\ token # NULL => i + 1 < group_cnt

\* three tokens in three slots: the last slot has been written
C19_Witness ==
    /\ pc = "multi_loop"
    /\ token = NULL
    /\ group_cnt >= 3
    /\ i = group_cnt - 1


====
